---- MODULE Spec2Model ----
(***************************************************************************)
(* TraefikX dynamic configuration aggregator.                              *)
(*                                                                         *)
(* State machine of backend/internal/services/aggregator.go together with  *)
(* the HTTP provider handlers of                                           *)
(* backend/internal/handlers/traefik/httpproviders.go that drive it.       *)
(*                                                                         *)
(* Spec       the pollers, the snapshot cache and the registry under every *)
(*            interleaving of handlers, timer ticks and fetch completions. *)
(* SpecMerge  GetMergedConfig as a function of the local configuration and *)
(*            of the snapshot cache.                                       *)
(***************************************************************************)
EXTENDS Integers, Sequences, FiniteSets, TLC

VARIABLES
    registry,   \* the http_providers table: id -> models.HTTPProvider
    statuses,   \* AggregatorService.statuses: id -> *ProviderStatus
    tickers,    \* AggregatorService.tickers: id -> index into pollers, 0 = no entry
    pollers,    \* every ticker made by startPolling with its poll goroutine
    fetches,    \* calls of fetchProvider waiting for the HTTP response, in issuance order
    starting,   \* the call of startPolling that holds tickersMu, if any
    stopped,    \* stopChan is closed
    boot,       \* Start: its phase and the providers it still has to start
    deleting,   \* ids whose DeleteHTTPProvider is between DeleteProvider and db.Delete
    lastID,     \* the last id the table has handed out (AUTOINCREMENT)
    clock,      \* time.Now(), advanced by one at every fetch that is issued
    ops,        \* number of handler calls made so far
    reply,      \* the HTTP status of the last handler call that has returned, 0 = none
    local,      \* the local configuration handed to GetMergedConfig
    merged,     \* what the last call of GetMergedConfig returned
    statusesMu, \* AggregatorService.statusesMu: its readers and whether a writer holds it
    reader,     \* a call of GetStatuses / GetMergedConfig and what it has copied so far
    writing     \* the write to statuses of the goroutine that holds statusesMu.Lock

vars == <<registry, lastID, statuses, tickers, pollers, fetches, starting, stopped,
          boot, deleting, clock, ops, reply, local, merged, statusesMu, reader,
          writing>>

(***************************************************************************)
(* Bounds of the model.                                                    *)
(***************************************************************************)
NumIDs == 2
MaxPriority == 1
MaxOps == 2
MaxFetches == 3

IDs == 1..NumIDs
Priorities == 0..MaxPriority
ProviderNames == {"a", "local"}

(***************************************************************************)
(* Program constants.                                                      *)
(***************************************************************************)
MinIntervalSecs == 5
DefaultIntervalSecs == 30
StatusOK == 200
StatusCreated == 201
StatusNotFound == 404
StatusInternalServerError == 500

ReqIntervals == {1, 10}

Max(a, b) == IF a >= b THEN a ELSE b

(***************************************************************************)
(* Documents.  An item definition is opaque to the aggregator; "from"      *)
(* tells the definitions of different documents apart and a router names   *)
(* its service.                                                            *)
(***************************************************************************)
Doc1 ==
    [Routers     |-> [n \in {"x"} |-> [service |-> "s", from |-> "d1"]],
     Services    |-> [n \in {"s"} |-> [from |-> "d1"]],
     Middlewares |-> [n \in {"m"} |-> [from |-> "d1"]]]

Doc2 ==
    [Routers     |-> [n \in {"x", "y"} |-> [service |-> "s", from |-> "d2"]],
     Services    |-> [n \in {"s"} |-> [from |-> "d2"]],
     Middlewares |-> [n \in {} |-> [from |-> "d2"]]]

NilConfig == [nil |-> TRUE]

Bodies == {"doc1", "doc2", "garbage"}

\* json.Unmarshal(body, &config)
Unmarshal(body) ==
    CASE body = "doc1" -> [err |-> FALSE, config |-> Doc1]
      [] body = "doc2" -> [err |-> FALSE, config |-> Doc2]
      [] OTHER         -> [err |-> TRUE, config |-> NilConfig]

\* the answers an endpoint can give to a.client.Get
Responses ==
    {[ok |-> FALSE, code |-> 0, readable |-> FALSE, body |-> "garbage"],
     [ok |-> TRUE, code |-> 500, readable |-> TRUE, body |-> "garbage"],
     [ok |-> TRUE, code |-> 204, readable |-> TRUE, body |-> "doc1"],
     [ok |-> TRUE, code |-> 200, readable |-> FALSE, body |-> "doc1"]}
    \cup {[ok |-> TRUE, code |-> 200, readable |-> TRUE, body |-> b] : b \in Bodies}

StatusLine(code) ==
    CASE code = 500 -> "HTTP 500: 500 Internal Server Error"
      [] code = 204 -> "HTTP 204: 204 No Content"
      [] OTHER      -> "HTTP"

\* the branches of fetchProvider: the error message, or "" and the parsed document
FetchOutcome(resp) ==
    IF ~resp.ok THEN [msg |-> "Connection error", config |-> NilConfig]
    ELSE IF resp.code # StatusOK THEN [msg |-> StatusLine(resp.code), config |-> NilConfig]
    ELSE IF ~resp.readable THEN [msg |-> "Read error", config |-> NilConfig]
    ELSE IF Unmarshal(resp.body).err THEN [msg |-> "JSON parse error", config |-> NilConfig]
    ELSE [msg |-> "", config |-> Unmarshal(resp.body).config]

(***************************************************************************)
(* The registry.                                                           *)
(***************************************************************************)
NoProvider == [ID |-> 0]
NoStatus == [ID |-> 0]
NoStart == [ID |-> 0]

\* statusesMu with no holder, no call reading the cache, no write under way
Unlocked == [readers |-> 0, writer |-> FALSE]
NoReader == [pc |-> "idle", call |-> "", todo |-> {}, view |-> [i \in IDs |-> NoStatus]]
NoWrite == [op |-> "none"]

HTTPProvider(id, name, priority, active, interval) ==
    [ID |-> id, Name |-> name, Priority |-> priority, IsActive |-> active,
     RefreshInterval |-> interval, LastFetched |-> 0, LastError |-> "",
     RouterCount |-> 0, ServiceCount |-> 0, MiddlewareCount |-> 0]

NameTaken(reg, name, except) ==
    \E i \in IDs : i # except /\ reg[i].ID # 0 /\ reg[i].Name = name

\* db.Save(provider): all the fields are written; a row that does not exist is
\* inserted; a write that breaks the unique index on name fails and changes nothing
Save(reg, p) ==
    IF NameTaken(reg, p.Name, p.ID) THEN reg ELSE [reg EXCEPT ![p.ID] = p]

\* db.Model(provider).Update("last_error", errMsg): one column of an existing row
UpdateLastError(reg, id, msg) ==
    IF reg[id].ID = 0 THEN reg ELSE [reg EXCEPT ![id].LastError = msg]

\* CreateHTTPProviderRequest with the fields the handler reads
CreateRequests ==
    [Name : ProviderNames, Priority : Priorities,
     RefreshInterval : ReqIntervals, IsActive : BOOLEAN]

\* UpdateHTTPProviderRequest: nil fields are left out, one field is set
UpdateRequests ==
    [field : {"Name"}, value : ProviderNames]
    \cup [field : {"Priority"}, value : Priorities]
    \cup [field : {"RefreshInterval"}, value : ReqIntervals]
    \cup [field : {"IsActive"}, value : BOOLEAN]

\* CreateHTTPProvider, "Set default refresh interval"
CreateInterval(requested) ==
    IF requested < MinIntervalSecs THEN DefaultIntervalSecs ELSE requested

\* startPolling, "Start ticker": the period the ticker is armed with
TickerInterval(configured) ==
    IF configured < MinIntervalSecs THEN MinIntervalSecs ELSE configured

(***************************************************************************)
(* Pollers.  A poller is a ticker and the goroutine that reads it:         *)
(*   armed  the ticker has not been stopped                                *)
(*   alive  the goroutine has not returned                                 *)
(*   busy   the goroutine is inside fetchProvider                          *)
(***************************************************************************)
Poller(id, period) ==
    [id |-> id, period |-> period, armed |-> TRUE, alive |-> TRUE, busy |-> FALSE]

\* the entry of the tickers map is left running
StopTickerSkipped(ps, tk, id) == ps

\* ticker.Stop() on the entry of the tickers map, if there is one
StopTicker(ps, tk, id) ==
    IF tk[id] # 0 THEN [ps EXCEPT ![tk[id]].armed = FALSE] ELSE ps

Fetch(p, origin, poller) ==
    [id |-> p.ID, prov |-> p, origin |-> origin, poller |-> poller]

RemoveAt(s, i) == SubSeq(s, 1, i - 1) \o SubSeq(s, i + 1, Len(s))

(***************************************************************************)
(* fetchProvider, after the response has arrived.                          *)
(***************************************************************************)
Count(f) == Cardinality(DOMAIN f)

\* the provider as fetchProvider / updateProviderError leave it behind the pointer
FetchedProvider(p, out, now) ==
    IF out.msg # "" THEN [p EXCEPT !.LastError = out.msg]
    ELSE [p EXCEPT !.LastFetched = now, !.LastError = "",
                   !.RouterCount = Count(out.config.Routers),
                   !.ServiceCount = Count(out.config.Services),
                   !.MiddlewareCount = Count(out.config.Middlewares)]

\* the registry after updateProviderError's Update or fetchProvider's Save
FetchedRegistry(reg, p, out, now) ==
    IF out.msg # "" THEN UpdateLastError(reg, p.ID, out.msg)
    ELSE Save(reg, FetchedProvider(p, out, now))

ProviderStatus(p, config) ==
    [ID |-> p.ID, Name |-> p.Name, Priority |-> p.Priority, IsActive |-> p.IsActive,
     LastFetched |-> p.LastFetched, LastError |-> "", Config |-> config,
     RouterCount |-> Count(config.Routers), ServiceCount |-> Count(config.Services),
     MiddlewareCount |-> Count(config.Middlewares)]

\* an error path that throws the cached document away
StatusesAfterErrorDropping(st, id, msg) ==
    IF st[id].ID # 0
    THEN [st EXCEPT ![id].LastError = msg, ![id].Config = NilConfig,
                    ![id].RouterCount = 0, ![id].ServiceCount = 0,
                    ![id].MiddlewareCount = 0]
    ELSE st

\* an error path that leaves the snapshot as it is
StatusesAfterErrorSilent(st, id, msg) == st

\* updateProviderError, "if status, exists := a.statuses[provider.ID]"
StatusesAfterError(st, id, msg) ==
    IF st[id].ID # 0 THEN [st EXCEPT ![id].LastError = msg] ELSE st

\* a success path that does not store the snapshot
StatusesAfterSuccessUnstored(st, p, config) == st

\* fetchProvider, "Update in-memory status"
StatusesAfterSuccess(st, p, config) ==
    [st EXCEPT ![p.ID] = ProviderStatus(p, config)]

FetchedStatuses(st, p, out, now) ==
    IF out.msg # "" THEN StatusesAfterError(st, p.ID, out.msg)
    ELSE StatusesAfterSuccess(st, FetchedProvider(p, out, now), out.config)

\* the table as an earlier run of the service can have left it
StoredRegistries ==
    {[i \in IDs |-> NoProvider]}
    \cup {[i \in IDs |-> IF i = 1
                          THEN HTTPProvider(1, "a", MaxPriority, active,
                                            CreateInterval(10))
                          ELSE NoProvider] : active \in BOOLEAN}

Init ==
    /\ registry \in StoredRegistries
    /\ lastID = IF registry[1].ID # 0 THEN 1 ELSE 0
    /\ statuses = [i \in IDs |-> NoStatus]
    /\ tickers = [i \in IDs |-> 0]
    /\ pollers = <<>>
    /\ fetches = <<>>
    /\ starting = NoStart
    /\ stopped = FALSE
    /\ boot = [phase |-> "init", todo |-> <<>>, failed |-> FALSE]
    /\ deleting = {}
    /\ clock = 0
    /\ ops = 0
    /\ reply = 0
    /\ local = NilConfig
    /\ merged = NilConfig
    /\ statusesMu = Unlocked
    /\ reader = NoReader
    /\ writing = NoWrite

(***************************************************************************)
(* startPolling.  The caller holds tickersMu from the first line to the    *)
(* return, the HTTP fetch included; BeginPolling is the part before the    *)
(* response arrives, FinishStart the part after it.  "then" is what the    *)
(* calling handler still has to do when startPolling returns.              *)
(***************************************************************************)
BeginPolling(p, then, ps, tk, fs) ==
    /\ tickers' = tk
    /\ pollers' = StopTicker(ps, tk, p.ID)
    /\ IF ~p.IsActive
       THEN /\ starting' = NoStart
            /\ fetches' = fs
            /\ clock' = clock
       ELSE /\ clock < MaxFetches
            /\ starting' = [ID |-> p.ID, then |-> then]
            /\ fetches' = Append(fs, Fetch(p, "start", 0))
            /\ clock' = clock + 1

\* DeleteProvider
DeleteProvider(id) ==
    /\ starting = NoStart
    /\ pollers' = StopTicker(pollers, tickers, id)
    /\ tickers' = [tickers EXCEPT ![id] = 0]
    /\ statuses' = [statuses EXCEPT ![id] = NoStatus]

(***************************************************************************)
(* The handlers of the HTTP provider API.                                  *)
(***************************************************************************)
CreateHTTPProvider(req) ==
    LET id == lastID + 1
        p == HTTPProvider(id, req.Name, req.Priority, req.IsActive,
                          CreateInterval(req.RefreshInterval))
    IN  /\ ops < MaxOps
        /\ boot.phase = "done"
        /\ id \in IDs
        /\ ~NameTaken(registry, req.Name, 0)
        /\ ops' = ops + 1
        /\ lastID' = id
        /\ registry' = [registry EXCEPT ![id] = p]
        /\ IF p.IsActive
           THEN /\ starting = NoStart
                /\ BeginPolling(p, "created", pollers, tickers, fetches)
           ELSE UNCHANGED <<tickers, pollers, starting, fetches, clock>>
        /\ reply' = IF p.IsActive THEN reply ELSE StatusCreated
        /\ UNCHANGED <<statusesMu, reader, writing>>
        /\ UNCHANGED <<statuses, stopped, local, merged, boot, deleting>>

\* the provider after the "Update ... if provided" blocks of UpdateHTTPProvider
Edited(p, req) ==
    CASE req.field = "Name" -> [p EXCEPT !.Name = req.value]
      [] req.field = "Priority" -> [p EXCEPT !.Priority = req.value]
      [] req.field = "RefreshInterval" ->
            IF req.value >= MinIntervalSecs
            THEN [p EXCEPT !.RefreshInterval = req.value] ELSE p
      [] OTHER -> [p EXCEPT !.IsActive = req.value]

\* UpdateHTTPProvider, "Activating": AddProvider first, Save and UpdateProvider after it
UpdateActivate(id, req) ==
    LET p == Edited(registry[id], req)
    IN  /\ ops < MaxOps
        /\ boot.phase = "done"
        /\ registry[id].ID # 0
        /\ req.field = "IsActive" /\ req.value /\ ~registry[id].IsActive
        /\ starting = NoStart
        /\ ops' = ops + 1
        /\ BeginPolling(p, "save", pollers, tickers, fetches)
        /\ UNCHANGED <<reply, statusesMu, reader, writing>>
        /\ UNCHANGED <<registry, lastID, statuses, stopped, local, merged, boot,
                       deleting>>

\* UpdateHTTPProvider, "Deactivating": DeleteProvider, then Save
UpdateDeactivate(id, req) ==
    LET p == Edited(registry[id], req)
    IN  /\ ops < MaxOps
        /\ boot.phase = "done"
        /\ registry[id].ID # 0
        /\ req.field = "IsActive" /\ ~req.value /\ registry[id].IsActive
        /\ ops' = ops + 1
        /\ DeleteProvider(id)
        /\ registry' = Save(registry, p)
        /\ reply' = StatusOK
        /\ UNCHANGED <<statusesMu, reader, writing>>
        /\ UNCHANGED <<lastID, fetches, starting, stopped, clock, local, merged,
                   boot, deleting>>

\* UpdateHTTPProvider when the active flag does not change: Save, then
\* UpdateProvider if the provider is active
UpdateHTTPProvider(id, req) ==
    LET p == Edited(registry[id], req)
    IN  /\ ops < MaxOps
        /\ boot.phase = "done"
        /\ registry[id].ID # 0
        /\ req.field = "IsActive" => req.value = registry[id].IsActive
        /\ req.field = "Name" => ~NameTaken(registry, req.value, id)
        /\ ops' = ops + 1
        /\ registry' = Save(registry, p)
        /\ IF p.IsActive
           THEN /\ starting = NoStart
                /\ BeginPolling(p, "updated", pollers, tickers, fetches)
           ELSE UNCHANGED <<tickers, pollers, starting, fetches, clock>>
        /\ reply' = IF p.IsActive THEN reply ELSE StatusOK
        /\ UNCHANGED <<statusesMu, reader, writing>>
        /\ UNCHANGED <<lastID, statuses, stopped, local, merged, boot, deleting>>

\* DeleteHTTPProvider up to "Stop polling": db.First, DeleteProvider
DeleteHTTPProvider(id) ==
    /\ ops < MaxOps
    /\ boot.phase = "done"
    /\ registry[id].ID # 0
    /\ id \notin deleting
    /\ ops' = ops + 1
    /\ DeleteProvider(id)
    /\ deleting' = deleting \cup {id}
    /\ UNCHANGED <<reply, statusesMu, reader, writing>>
    /\ UNCHANGED <<registry, lastID, fetches, starting, stopped, clock, local, merged,
                   boot>>

\* DeleteHTTPProvider, "Delete from database"
DeleteFromDatabase(id) ==
    /\ id \in deleting
    /\ deleting' = deleting \ {id}
    /\ registry' = [registry EXCEPT ![id] = NoProvider]
    /\ reply' = StatusOK
    /\ UNCHANGED <<statusesMu, reader, writing>>
    /\ UNCHANGED <<lastID, statuses, tickers, pollers, fetches, starting, stopped,
                   clock, ops, local, merged, boot>>

\* RefreshHTTPProvider -> RefreshProvider: "go a.fetchProvider(&provider)"
RefreshProvider(id) ==
    /\ ops < MaxOps
    /\ boot.phase = "done"
    /\ clock < MaxFetches
    /\ registry[id].ID # 0
    /\ ops' = ops + 1
    /\ fetches' = Append(fetches, Fetch(registry[id], "refresh", 0))
    /\ clock' = clock + 1
    /\ reply' = StatusOK
    /\ UNCHANGED <<statusesMu, reader, writing>>
    /\ UNCHANGED <<registry, lastID, statuses, tickers, pollers, starting, stopped,
                   local, merged, boot, deleting>>

\* a refresh of a missing row that answers as if the refresh had been triggered
RefreshNotFoundIgnored(id) ==
    /\ ops < MaxOps
    /\ boot.phase = "done"
    /\ registry[id].ID = 0
    /\ ops' = ops + 1
    /\ reply' = StatusOK
    /\ UNCHANGED <<statusesMu, reader, writing>>
    /\ UNCHANGED <<registry, lastID, statuses, tickers, pollers, fetches, starting,
                   stopped, clock, local, merged, boot, deleting>>

\* RefreshProvider when db.First finds no row: the error is returned, nothing else
RefreshNotFound(id) ==
    /\ ops < MaxOps
    /\ boot.phase = "done"
    /\ registry[id].ID = 0
    /\ ops' = ops + 1
    /\ reply' = StatusNotFound
    /\ UNCHANGED <<statusesMu, reader, writing>>
    /\ UNCHANGED <<registry, lastID, statuses, tickers, pollers, fetches, starting,
                   stopped, clock, local, merged,
                   boot, deleting>>

\* TestHTTPProvider: db.First, then RefreshProvider; a missing row ends the call
TestHTTPProvider(id) ==
    /\ ops < MaxOps
    /\ boot.phase = "done"
    /\ ops' = ops + 1
    /\ IF registry[id].ID # 0
       THEN /\ clock < MaxFetches
            /\ fetches' = Append(fetches, Fetch(registry[id], "refresh", 0))
            /\ clock' = clock + 1
       ELSE UNCHANGED <<fetches, clock>>
    /\ reply' = IF registry[id].ID # 0 THEN StatusOK ELSE StatusNotFound
    /\ UNCHANGED <<statusesMu, reader, writing>>
    /\ UNCHANGED <<registry, lastID, statuses, tickers, pollers, starting, stopped,
                   local, merged, boot, deleting>>

\* a Stop that closes stopChan and leaves the tickers as they are
StopSignalOnly ==
    /\ ops < MaxOps
    /\ boot.phase = "done"
    /\ ~stopped
    /\ starting = NoStart
    /\ ops' = ops + 1
    /\ stopped' = TRUE
    /\ UNCHANGED <<registry, lastID, statuses, fetches, starting, clock, local, merged,
                   boot, deleting, tickers, pollers, reply, statusesMu, reader,
                   writing>>

\* Stop
Stop ==
    /\ ops < MaxOps
    /\ boot.phase = "done"
    /\ ~stopped
    /\ starting = NoStart
    /\ ops' = ops + 1
    /\ stopped' = TRUE
    /\ pollers' = [k \in DOMAIN pollers |->
                     IF tickers[pollers[k].id] = k
                     THEN [pollers[k] EXCEPT !.armed = FALSE] ELSE pollers[k]]
    /\ tickers' = [i \in IDs |-> 0]
    /\ UNCHANGED <<reply, statusesMu, reader, writing>>
    /\ UNCHANGED <<registry, lastID, statuses, fetches, starting, clock, local, merged,
                   boot, deleting>>

(***************************************************************************)
(* Start: the providers are loaded in one query and started one after the  *)
(* other; the API is served when Start has returned.                       *)
(***************************************************************************)
Loaded(reg) ==
    LET RECURSIVE From(_)
        From(i) == IF i > NumIDs THEN <<>>
                   ELSE (IF reg[i].ID # 0 THEN <<reg[i]>> ELSE <<>>) \o From(i + 1)
    IN  From(1)

\* "a.db.Find(&providers)"
Start ==
    /\ boot.phase = "init"
    /\ boot' = [phase |-> "loop", todo |-> Loaded(registry), failed |-> FALSE]
    /\ UNCHANGED <<reply, statusesMu, reader, writing>>
    /\ UNCHANGED <<registry, lastID, statuses, tickers, pollers, fetches, starting,
                   stopped, deleting, clock, ops, local, merged>>

\* "a.db.Find(&providers)" fails: "Failed to load HTTP providers" is logged and
\* Start returns
StartLoadFails ==
    /\ boot.phase = "init"
    /\ boot' = [phase |-> "done", todo |-> <<>>, failed |-> TRUE]
    /\ UNCHANGED <<registry, lastID, statuses, tickers, pollers, fetches, starting,
                   stopped, deleting, clock, ops, reply, local, merged, statusesMu,
                   reader, writing>>

\* one round of "for _, provider := range providers { a.startPolling(&provider) }"
StartNext ==
    /\ boot.phase = "loop"
    /\ starting = NoStart
    /\ IF boot.todo = <<>>
       THEN /\ boot' = [boot EXCEPT !.phase = "done"]
            /\ UNCHANGED <<tickers, pollers, starting, fetches, clock>>
       ELSE /\ boot' = [boot EXCEPT !.todo = Tail(boot.todo)]
            /\ BeginPolling(Head(boot.todo), "boot", pollers, tickers, fetches)
    /\ UNCHANGED <<reply, statusesMu, reader, writing>>
    /\ UNCHANGED <<registry, lastID, statuses, stopped, deleting, ops, local, merged>>

(***************************************************************************)
(* The poll goroutine of startPolling.                                     *)
(***************************************************************************)
\* "case <-ticker.C", the row is there: fetchProvider(&p)
TickFetch(k) ==
    /\ k \in DOMAIN pollers
    /\ pollers[k].alive /\ pollers[k].armed /\ ~pollers[k].busy
    /\ registry[pollers[k].id].ID # 0
    /\ clock < MaxFetches
    /\ pollers' = [pollers EXCEPT ![k].busy = TRUE]
    /\ fetches' = Append(fetches, Fetch(registry[pollers[k].id], "tick", k))
    /\ clock' = clock + 1
    /\ UNCHANGED <<reply, statusesMu, reader, writing>>
    /\ UNCHANGED <<registry, lastID, statuses, tickers, starting, stopped, ops,
                   local, merged, boot, deleting>>

\* "case <-ticker.C", db.First fails: the goroutine returns
TickGone(k) ==
    /\ k \in DOMAIN pollers
    /\ pollers[k].alive /\ pollers[k].armed /\ ~pollers[k].busy
    /\ registry[pollers[k].id].ID = 0
    /\ pollers' = [pollers EXCEPT ![k].alive = FALSE]
    /\ UNCHANGED <<reply, statusesMu, reader, writing>>
    /\ UNCHANGED <<registry, lastID, statuses, tickers, fetches, starting, stopped,
                   clock, ops, local, merged, boot, deleting>>

\* "case <-ticker.C", db.First returns an error although the record is there
\* (the goroutine returns on any error of the read)
TickReadFails(k) ==
    /\ k \in DOMAIN pollers
    /\ pollers[k].alive /\ pollers[k].armed /\ ~pollers[k].busy
    /\ registry[pollers[k].id].ID # 0
    /\ pollers' = [pollers EXCEPT ![k].alive = FALSE]
    /\ UNCHANGED <<reply, statusesMu, reader, writing>>
    /\ UNCHANGED <<registry, lastID, statuses, tickers, fetches, starting, stopped,
                   clock, ops, local, merged, boot, deleting>>

\* "case <-a.stopChan": the goroutine returns
PollerExit(k) ==
    /\ k \in DOMAIN pollers
    /\ stopped
    /\ pollers[k].alive /\ ~pollers[k].busy
    /\ pollers' = [pollers EXCEPT ![k].alive = FALSE]
    /\ UNCHANGED <<reply, statusesMu, reader, writing>>
    /\ UNCHANGED <<registry, lastID, statuses, tickers, fetches, starting, stopped,
                   clock, ops, local, merged, boot, deleting>>

(***************************************************************************)
(* The response of a fetch arrives and fetchProvider runs to its end.      *)
(***************************************************************************)
\* a fetch cycle that ends when its write to the registry fails
CompletedAborting(reg, st, p, out, now, written) ==
    IF written
    THEN [registry |-> FetchedRegistry(reg, p, out, now),
          statuses |-> FetchedStatuses(st, p, out, now)]
    ELSE [registry |-> reg, statuses |-> st]

\* the registry and the cache when fetchProvider has run to its end; written
\* tells whether its write to the registry went through ("Failed to save
\* provider", "Failed to update provider error" are logged and nothing else)
Completed(reg, st, p, out, now, written) ==
    [registry |-> IF written THEN FetchedRegistry(reg, p, out, now) ELSE reg,
     statuses |-> FetchedStatuses(st, p, out, now)]

\* a fetch started by RefreshProvider
RefreshDone(i, resp, written) ==
    LET f == fetches[i]
        done == Completed(registry, statuses, f.prov, FetchOutcome(resp), clock,
                          written)
    IN  /\ i \in DOMAIN fetches
        /\ f.origin = "refresh"
        /\ registry' = done.registry
        /\ statuses' = done.statuses
        /\ fetches' = RemoveAt(fetches, i)
        /\ UNCHANGED <<reply, statusesMu, reader, writing>>
        /\ UNCHANGED <<lastID, tickers, pollers, starting, stopped, clock, ops,
                       local, merged, boot, deleting>>

FinishRefresh(i, resp) == RefreshDone(i, resp, TRUE)

FinishRefreshUnwritten(i, resp) == RefreshDone(i, resp, FALSE)

\* a fetch started by a tick: the goroutine goes back to its select
TickDone(i, resp, written) ==
    LET f == fetches[i]
        done == Completed(registry, statuses, f.prov, FetchOutcome(resp), clock,
                          written)
    IN  /\ i \in DOMAIN fetches
        /\ f.origin = "tick"
        /\ registry' = done.registry
        /\ statuses' = done.statuses
        /\ fetches' = RemoveAt(fetches, i)
        /\ pollers' = [pollers EXCEPT ![f.poller].busy = FALSE]
        /\ UNCHANGED <<reply, statusesMu, reader, writing>>
        /\ UNCHANGED <<lastID, tickers, starting, stopped, clock, ops, local, merged,
                       boot, deleting>>

FinishTick(i, resp) == TickDone(i, resp, TRUE)

FinishTickUnwritten(i, resp) == TickDone(i, resp, FALSE)

\* what the caller of startPolling answers when startPolling has returned
HandlerReply(then, last) ==
    CASE then = "created" -> StatusCreated
      [] then = "updated" -> StatusOK
      [] then = "save"    -> StatusInternalServerError
      [] OTHER            -> last

\* the initial fetch of startPolling: the ticker is armed, the goroutine is
\* started, tickersMu is released and the handler goes on
StartDone(i, resp, written) ==
    LET f == fetches[i]
        out == FetchOutcome(resp)
        p == FetchedProvider(f.prov, out, clock)
        done == Completed(registry, statuses, f.prov, out, clock, written)
        reg == done.registry
        ps == Append(pollers, Poller(f.id, TickerInterval(p.RefreshInterval)))
        tk == [tickers EXCEPT ![f.id] = Len(ps)]
        fs == RemoveAt(fetches, i)
    IN  /\ i \in DOMAIN fetches
        /\ f.origin = "start"
        /\ statuses' = done.statuses
        /\ IF starting.then = "save" /\ ~NameTaken(reg, p.Name, p.ID)
           THEN /\ registry' = Save(reg, p)
                /\ BeginPolling(p, "updated", ps, tk, fs)
                /\ reply' = reply
                /\ UNCHANGED <<statusesMu, reader, writing>>
           ELSE /\ registry' = reg
                /\ pollers' = ps
                /\ tickers' = tk
                /\ fetches' = fs
                /\ starting' = NoStart
                /\ clock' = clock
                /\ reply' = HandlerReply(starting.then, reply)
                /\ UNCHANGED <<statusesMu, reader, writing>>
        /\ UNCHANGED <<lastID, stopped, ops, local, merged, boot, deleting>>

FinishStart(i, resp) == StartDone(i, resp, TRUE)

FinishStartUnwritten(i, resp) == StartDone(i, resp, FALSE)

(***************************************************************************)
(* GetMergedConfig.                                                        *)
(***************************************************************************)
Kinds == {"router", "service", "middleware"}

\* the collection of a document that holds the items of a kind
Items(config, kind) ==
    CASE kind = "router" -> config.Routers
      [] kind = "service" -> config.Services
      [] OTHER -> config.Middlewares

EmptyConfig ==
    [Routers     |-> [n \in {} |-> [from |-> "db"]],
     Services    |-> [n \in {} |-> [from |-> "db"]],
     Middlewares |-> [n \in {} |-> [from |-> "db"]]]

\* local configurations as the handlers build them from the database
LocalX ==
    [Routers     |-> [n \in {"x"} |-> [service |-> "s", from |-> "db"]],
     Services    |-> [n \in {"s"} |-> [from |-> "db"]],
     Middlewares |-> [n \in {} |-> [from |-> "db"]]]

LocalM ==
    [Routers     |-> [n \in {} |-> [from |-> "db"]],
     Services    |-> [n \in {} |-> [from |-> "db"]],
     Middlewares |-> [n \in {"m"} |-> [from |-> "db"]]]

Locals == {EmptyConfig, LocalX, LocalM}

\* a Conflict record whose SourcePriority is left at its zero value
ConflictInfoNoPriority(type, name, source, overriddenBy, priority) ==
    [Type |-> type, Name |-> name, Source |-> source, OverriddenBy |-> overriddenBy,
     SourcePriority |-> 0]

ConflictInfo(type, name, source, overriddenBy, priority) ==
    [Type |-> type, Name |-> name, Source |-> source, OverriddenBy |-> overriddenBy,
     SourcePriority |-> priority]

\* a candidate filter that does not look at the last error
CandidatesWithErrors(st) ==
    {id \in IDs : /\ st[id].ID # 0
                  /\ st[id].IsActive
                  /\ st[id].Config # NilConfig}

\* "if status.IsActive && status.Config != nil && status.LastError == """
Candidates(st) ==
    {id \in IDs : /\ st[id].ID # 0
                  /\ st[id].IsActive
                  /\ st[id].Config # NilConfig
                  /\ st[id].LastError = ""}

\* a walk that meets the candidates in the order of the map, without the sort
OrdersOfTheMap(st) ==
    {o \in [1..Cardinality(Candidates(st)) -> Candidates(st)] :
        \A i, j \in DOMAIN o : i # j => o[i] # o[j]}

\* the orders in which the walk can meet the candidates: range over a map is in
\* no fixed order and sort.Slice orders by priority only
Orders(st) ==
    {o \in [1..Cardinality(Candidates(st)) -> Candidates(st)] :
        /\ \A i, j \in DOMAIN o : i # j => o[i] # o[j]
        /\ \A i, j \in DOMAIN o : i < j => st[o[i]].Priority >= st[o[j]].Priority}

RECURSIVE SeqOfSet(_)
SeqOfSet(S) ==
    IF S = {} THEN <<>>
    ELSE LET n == CHOOSE n \in S : TRUE IN <<n>> \o SeqOfSet(S \ {n})

\* a merge loop that lets the later definition replace the one already there
MergeItemsOverwrite(acc, status, kind) ==
    LET doc == Items(status.Config, kind)
        have == acc.sources[kind]
    IN  [items |-> [acc.items EXCEPT ![kind] =
                        [n \in DOMAIN have \cup DOMAIN doc |->
                            IF n \in DOMAIN doc THEN doc[n] ELSE acc.items[kind][n]]],
         sources |-> [acc.sources EXCEPT ![kind] =
                        [n \in DOMAIN have \cup DOMAIN doc |->
                            IF n \in DOMAIN doc THEN status.Name ELSE have[n]]],
         conflicts |-> acc.conflicts]

\* one "Merge routers / services / middlewares" loop of one status
MergeItems(acc, status, kind) ==
    LET doc == Items(status.Config, kind)
        have == acc.sources[kind]
        taken == DOMAIN doc \cap DOMAIN have
        lost == SeqOfSet({n \in taken : have[n] # status.Name})
    IN  [items |-> [acc.items EXCEPT ![kind] =
                        [n \in DOMAIN have \cup DOMAIN doc |->
                            IF n \in DOMAIN have THEN acc.items[kind][n] ELSE doc[n]]],
         sources |-> [acc.sources EXCEPT ![kind] =
                        [n \in DOMAIN have \cup DOMAIN doc |->
                            IF n \in DOMAIN have THEN have[n] ELSE status.Name]],
         conflicts |-> acc.conflicts \o
                        [c \in DOMAIN lost |->
                            ConflictInfo(kind, lost[c], status.Name, have[lost[c]],
                                         status.Priority)]]

\* a loop body that merges the routers and the middlewares only
MergeStatusWithoutServices(acc, status) ==
    MergeItems(MergeItems(acc, status, "router"), status, "middleware")

\* the body of "for _, status := range statuses"
MergeStatus(acc, status) ==
    MergeItems(MergeItems(MergeItems(acc, status, "router"), status, "service"),
               status, "middleware")

RECURSIVE MergeWalk(_, _, _)
MergeWalk(acc, st, order) ==
    IF order = <<>> THEN acc
    ELSE MergeWalk(MergeStatus(acc, st[Head(order)]), st, Tail(order))

\* "Add local config first (highest priority)"; a nil local configuration seeds
\* nothing
LocalSeed(loc) ==
    LET seed == IF loc = NilConfig THEN EmptyConfig ELSE loc
    IN  [items |-> [k \in Kinds |-> Items(seed, k)],
         sources |-> [k \in Kinds |->
                        [n \in DOMAIN Items(seed, k) |-> "local"]],
         conflicts |-> <<>>]

GetMergedConfig(loc, st, order) ==
    LET acc == MergeWalk(LocalSeed(loc), st, order)
    IN  [config |-> [Routers |-> acc.items["router"],
                     Services |-> acc.items["service"],
                     Middlewares |-> acc.items["middleware"]],
         conflicts |-> acc.conflicts]

\* a caller (HTTPProviderHandler.GetMergedConfig, mergeExternalConfigs) calls
\* GetMergedConfig with the local configuration
GetMergedConfigCall(order) ==
    /\ order \in Orders(statuses)
    /\ merged' = GetMergedConfig(local, statuses, order)
    /\ UNCHANGED <<reply, statusesMu, reader, writing>>
    /\ UNCHANGED <<registry, lastID, statuses, tickers, pollers, fetches, starting,
                   stopped, clock, ops, local, boot, deleting>>

Next ==
    \/ Start
    \/ StartNext
    \/ \E req \in CreateRequests : CreateHTTPProvider(req)
    \/ \E id \in IDs, req \in UpdateRequests : UpdateActivate(id, req)
    \/ \E id \in IDs, req \in UpdateRequests : UpdateDeactivate(id, req)
    \/ \E id \in IDs, req \in UpdateRequests : UpdateHTTPProvider(id, req)
    \/ \E id \in IDs : DeleteHTTPProvider(id)
    \/ \E id \in IDs : DeleteFromDatabase(id)
    \/ \E id \in IDs : RefreshProvider(id)
    \/ \E id \in IDs : RefreshNotFound(id)
    \/ \E id \in IDs : TestHTTPProvider(id)
    \/ Stop
    \/ \E k \in 1..Len(pollers) : TickFetch(k)
    \/ \E k \in 1..Len(pollers) : TickGone(k)
    \/ \E k \in 1..Len(pollers) : PollerExit(k)
    \/ \E i \in 1..Len(fetches), resp \in Responses : FinishRefresh(i, resp)
    \/ \E i \in 1..Len(fetches), resp \in Responses : FinishTick(i, resp)
    \/ \E i \in 1..Len(fetches), resp \in Responses : FinishStart(i, resp)

Spec == Init /\ [][Next]_vars

(***************************************************************************)
(* The two callers of GetMergedConfig.  Each reads the local tables        *)
(* (routers with their hostnames and their service, services, middlewares; *)
(* here no router asks for the HTTPS redirect and every middleware has a   *)
(* valid configuration) and builds the local configuration its own way.    *)
(***************************************************************************)
LocalTables ==
    {[Routers     |-> [n \in rs |-> [IsActive |-> TRUE, Hostnames |-> h,
                                    Service |-> "s"]],
      Services    |-> [n \in {"s"} |-> [IsActive |-> sa]],
      Middlewares |-> [n \in ms |-> [IsActive |-> TRUE]]] :
        rs \in {{}, {"x"}}, h \in 0..1, sa \in BOOLEAN, ms \in {{}, {"m"}}}

\* HTTPProviderHandler.GetMergedConfig, "Convert to Traefik format": every active
\* router (convertRouterToTraefikFormat gives nil for one without hostnames, and
\* the name is stored with it), every active service, every active middleware
AdminLocal(t) ==
    [Routers     |-> [n \in {r \in DOMAIN t.Routers : t.Routers[r].IsActive} |->
                        IF t.Routers[n].Hostnames = 0
                        THEN [nil |-> TRUE, from |-> "db"]
                        ELSE [service |-> t.Routers[n].Service, from |-> "db"]],
     Services    |-> [n \in {v \in DOMAIN t.Services : t.Services[v].IsActive} |->
                        [from |-> "db"]],
     Middlewares |-> [n \in {m \in DOMAIN t.Middlewares : t.Middlewares[m].IsActive}
                        |-> [from |-> "db"]]]

HandlerGetMergedConfig(t, st, order) == GetMergedConfig(AdminLocal(t), st, order).config

\* GenerateConfig up to the merge: the active routers that have a hostname, the
\* services of these routers, the active middlewares
ServedLocal(t) ==
    LET routers == {r \in DOMAIN t.Routers :
                       t.Routers[r].IsActive /\ t.Routers[r].Hostnames > 0}
    IN  [Routers     |-> [n \in routers |->
                            [service |-> t.Routers[n].Service, from |-> "db"]],
         Services    |-> [n \in {t.Routers[r].Service : r \in routers} |->
                            [from |-> "db"]],
         Middlewares |-> [n \in {m \in DOMAIN t.Middlewares :
                                    t.Middlewares[m].IsActive} |-> [from |-> "db"]]]

\* "skip if local already has it"
Overlay(loc, ext) ==
    [n \in DOMAIN loc \cup DOMAIN ext |-> IF n \in DOMAIN loc THEN loc[n] ELSE ext[n]]

mergeExternalConfigs(config, st, order) ==
    LET mergedConfig == GetMergedConfig(config, st, order).config
    IN  [Routers     |-> Overlay(config.Routers, mergedConfig.Routers),
         Services    |-> Overlay(config.Services, mergedConfig.Services),
         Middlewares |-> Overlay(config.Middlewares, mergedConfig.Middlewares)]

GenerateConfig(t, st, order) == mergeExternalConfigs(ServedLocal(t), st, order)

(***************************************************************************)
(* The status view: getSourcesInfo reads the table, puts the entry of the  *)
(* local database first and classifies every provider.                     *)
(***************************************************************************)
LocalPriority == 9999

\* the status of one provider: the last error is looked at first
SourceStatus(p) ==
    IF p.LastError # ""
    THEN (IF p.LastFetched = 0 THEN "unhealthy" ELSE "degraded")
    ELSE IF ~p.IsActive THEN "inactive" ELSE "healthy"

\* db.Order("priority DESC").Find(&providers): rows of equal priority come in
\* an order the database chooses
ProvidersByPriority(reg) ==
    LET rows == {id \in IDs : reg[id].ID # 0}
    IN  CHOOSE o \in [1..Cardinality(rows) -> rows] :
            /\ \A i, j \in DOMAIN o : i # j => o[i] # o[j]
            /\ \A i, j \in DOMAIN o : i < j => reg[o[i]].Priority >= reg[o[j]].Priority

getSourcesInfo(reg) ==
    LET providers == ProvidersByPriority(reg)
    IN  <<[name |-> "local", priority |-> LocalPriority, status |-> "healthy",
           last_error |-> ""]>>
        \o [i \in DOMAIN providers |->
              [name |-> reg[providers[i]].Name,
               priority |-> reg[providers[i]].Priority,
               status |-> SourceStatus(reg[providers[i]]),
               last_error |-> reg[providers[i]].LastError]]

(***************************************************************************)
(* The service with its scheduling: a ticker that is armed fires again and *)
(* again, and a.client (Timeout: 5 * time.Second) ends every fetch.        *)
(***************************************************************************)
PollerIndices == 1..MaxFetches

Fairness ==
    /\ \A k \in PollerIndices : WF_vars(TickFetch(k))
    /\ \A k \in PollerIndices :
          WF_vars(\E i \in 1..Len(fetches), resp \in Responses :
                     FinishTick(i, resp) /\ fetches[i].poller = k)

\* the stored sources are started and polled; a source can be edited or deleted
\* and the service stopped
NextLive ==
    \/ Start
    \/ StartNext
    \/ \E id \in IDs, req \in UpdateRequests : UpdateHTTPProvider(id, req)
    \/ \E id \in IDs : DeleteHTTPProvider(id)
    \/ \E id \in IDs : DeleteFromDatabase(id)
    \/ Stop
    \/ \E k \in 1..Len(pollers) : TickFetch(k)
    \/ \E k \in 1..Len(pollers) : TickGone(k)
    \/ \E k \in 1..Len(pollers) : PollerExit(k)
    \/ \E i \in 1..Len(fetches), resp \in Responses : FinishTick(i, resp)
    \/ \E i \in 1..Len(fetches), resp \in Responses : FinishStart(i, resp)

SpecLive == Init /\ [][NextLive]_vars /\ Fairness

\* shutdown: the stored sources are started, polled and edited and the service
\* is stopped; a goroutine that can take "case <-a.stopChan" does take it
NextShutdown ==
    \/ Start
    \/ StartNext
    \/ \E id \in IDs, req \in UpdateRequests : UpdateHTTPProvider(id, req)
    \/ Stop
    \/ \E k \in 1..Len(pollers) : TickFetch(k)
    \/ \E k \in 1..Len(pollers) : PollerExit(k)
    \/ \E i \in 1..Len(fetches), resp \in Responses : FinishTick(i, resp)
    \/ \E i \in 1..Len(fetches), resp \in Responses : FinishStart(i, resp)

SpecShutdown ==
    /\ Init
    /\ [][NextShutdown]_vars
    /\ Fairness
    /\ \A k \in PollerIndices : WF_vars(PollerExit(k))

(***************************************************************************)
(* The pollers on a database that can fail: the load of Start, the read of *)
(* a tick and the writes of fetchProvider and updateProviderError can      *)
(* return an error.                                                        *)
(* The stored sources are started, polled and refreshed; none is created,  *)
(* edited or deleted.                                                      *)
(***************************************************************************)
NextFaults ==
    \/ Start
    \/ StartLoadFails
    \/ StartNext
    \/ \E id \in IDs : RefreshProvider(id)
    \/ \E k \in 1..Len(pollers) : TickFetch(k)
    \/ \E k \in 1..Len(pollers) : TickReadFails(k)
    \/ \E i \in 1..Len(fetches), resp \in Responses : FinishRefresh(i, resp)
    \/ \E i \in 1..Len(fetches), resp \in Responses : FinishTick(i, resp)
    \/ \E i \in 1..Len(fetches), resp \in Responses : FinishStart(i, resp)
    \/ \E i \in 1..Len(fetches), resp \in Responses : FinishRefreshUnwritten(i, resp)
    \/ \E i \in 1..Len(fetches), resp \in Responses : FinishTickUnwritten(i, resp)
    \/ \E i \in 1..Len(fetches), resp \in Responses : FinishStartUnwritten(i, resp)

SpecFaults == Init /\ [][NextFaults]_vars

(***************************************************************************)
(* GetMergedConfig on its own: the cache holds any snapshots fetchProvider *)
(* and updateProviderError can have left there, the caller hands in any    *)
(* local configuration.                                                    *)
(***************************************************************************)
CachedErrors == {"", "Connection error"}

CachedSnapshots(id) ==
    {[ProviderStatus([HTTPProvider(id, name, priority, active, DefaultIntervalSecs)
                        EXCEPT !.LastFetched = 1], config)
        EXCEPT !.LastError = msg] :
        name \in ProviderNames, priority \in Priorities, active \in BOOLEAN,
        config \in {Doc1, Doc2}, msg \in CachedErrors}

InitMerge ==
    /\ registry = [i \in IDs |-> NoProvider]
    /\ lastID = 0
    /\ statuses \in [IDs -> UNION {CachedSnapshots(id) : id \in IDs} \cup {NoStatus}]
    /\ \A id \in IDs : statuses[id].ID \in {0, id}
    /\ tickers = [i \in IDs |-> 0]
    /\ pollers = <<>>
    /\ fetches = <<>>
    /\ starting = NoStart
    /\ stopped = FALSE
    /\ boot = [phase |-> "done", todo |-> <<>>, failed |-> FALSE]
    /\ deleting = {}
    /\ clock = 0
    /\ ops = 0
    /\ reply = 0
    /\ local \in Locals
    /\ merged = NilConfig
    /\ statusesMu = Unlocked
    /\ reader = NoReader
    /\ writing = NoWrite

NextMerge == \E order \in Orders(statuses) : GetMergedConfigCall(order)

SpecMerge == InitMerge /\ [][NextMerge]_vars

(***************************************************************************)
(* The cache under statusesMu: GetStatuses and GetMergedConfig take RLock  *)
(* for the whole call and read the entries one after the other; a fetch    *)
(* that completes and DeleteProvider take Lock for their write.            *)
(***************************************************************************)
ReaderCalls == {"GetStatuses", "GetMergedConfig"}

\* two stored active sources
PolledRegistry ==
    [i \in IDs |-> HTTPProvider(i, IF i = 1 THEN "a" ELSE "b", i % (MaxPriority + 1),
                                TRUE, DefaultIntervalSecs)]

\* sync.RWMutex: RLock waits for the writer, Lock for the writer and the readers
CanRLock(mu) == ~mu.writer

\* a Lock that does not wait for the readers
CanLockAmongReaders(mu) == ~mu.writer

CanLock(mu) == mu.readers = 0 /\ ~mu.writer

\* "a.statusesMu.RLock(); defer a.statusesMu.RUnlock()"
RLock(call) ==
    /\ ops < MaxOps
    /\ reader.pc = "idle"
    /\ CanRLock(statusesMu)
    /\ ops' = ops + 1
    /\ statusesMu' = [statusesMu EXCEPT !.readers = @ + 1]
    /\ reader' = [pc |-> "held", call |-> call, todo |-> IDs,
                  view |-> [i \in IDs |-> NoStatus]]
    /\ UNCHANGED <<registry, lastID, statuses, tickers, pollers, fetches, starting,
                   stopped, boot, deleting, clock, reply, local, merged, writing>>

\* one round of "for _, status := range a.statuses": the entry is read
ReadStatus(id) ==
    /\ reader.pc = "held"
    /\ id \in reader.todo
    /\ reader' = [reader EXCEPT !.todo = @ \ {id}, !.view[id] = statuses[id]]
    /\ UNCHANGED <<registry, lastID, statuses, tickers, pollers, fetches, starting,
                   stopped, boot, deleting, clock, ops, reply, local, merged,
                   statusesMu, writing>>

\* GetStatuses returns its copies; the deferred RUnlock runs
GetStatusesReturn ==
    /\ reader.pc = "held"
    /\ reader.call = "GetStatuses"
    /\ reader.todo = {}
    /\ reader' = [reader EXCEPT !.pc = "idle"]
    /\ statusesMu' = [statusesMu EXCEPT !.readers = @ - 1]
    /\ UNCHANGED <<registry, lastID, statuses, tickers, pollers, fetches, starting,
                   stopped, boot, deleting, clock, ops, reply, local, merged, writing>>

\* GetMergedConfig merges what it has read and returns; the deferred RUnlock runs
GetMergedConfigReturn(order) ==
    /\ reader.pc = "held"
    /\ reader.call = "GetMergedConfig"
    /\ reader.todo = {}
    /\ order \in Orders(reader.view)
    /\ merged' = GetMergedConfig(local, reader.view, order)
    /\ reader' = [reader EXCEPT !.pc = "idle"]
    /\ statusesMu' = [statusesMu EXCEPT !.readers = @ - 1]
    /\ UNCHANGED <<registry, lastID, statuses, tickers, pollers, fetches, starting,
                   stopped, boot, deleting, clock, ops, reply, local, writing>>

\* a fetch of source id ends with the answer resp: the row is written, then
\* fetchProvider / updateProviderError take "a.statusesMu.Lock()"
FetchLock(id, resp) ==
    /\ clock < MaxFetches
    /\ writing = NoWrite
    /\ registry[id].ID # 0
    /\ CanLock(statusesMu)
    /\ clock' = clock + 1
    /\ registry' = FetchedRegistry(registry, registry[id], FetchOutcome(resp),
                                   clock + 1)
    /\ statusesMu' = [statusesMu EXCEPT !.writer = TRUE]
    /\ writing' = [op |-> "fetch", prov |-> registry[id], resp |-> resp]
    /\ UNCHANGED <<lastID, statuses, tickers, pollers, fetches, starting, stopped,
                   boot, deleting, ops, reply, local, merged, reader>>

\* DeleteProvider: the ticker is stopped, then "a.statusesMu.Lock()"
DeleteLock(id) ==
    /\ ops < MaxOps
    /\ writing = NoWrite
    /\ starting = NoStart
    /\ CanLock(statusesMu)
    /\ ops' = ops + 1
    /\ pollers' = StopTicker(pollers, tickers, id)
    /\ tickers' = [tickers EXCEPT ![id] = 0]
    /\ statusesMu' = [statusesMu EXCEPT !.writer = TRUE]
    /\ writing' = [op |-> "delete", id |-> id]
    /\ UNCHANGED <<registry, lastID, statuses, fetches, starting, stopped, boot,
                   deleting, clock, reply, local, merged, reader>>

\* the write under the lock and "a.statusesMu.Unlock()"
WriteUnlock ==
    /\ writing # NoWrite
    /\ statuses' = IF writing.op = "fetch"
                   THEN FetchedStatuses(statuses, writing.prov,
                                        FetchOutcome(writing.resp), clock)
                   ELSE [statuses EXCEPT ![writing.id] = NoStatus]
    /\ statusesMu' = [statusesMu EXCEPT !.writer = FALSE]
    /\ writing' = NoWrite
    /\ UNCHANGED <<registry, lastID, tickers, pollers, fetches, starting, stopped,
                   boot, deleting, clock, ops, reply, local, merged, reader>>

InitReaders ==
    /\ registry = PolledRegistry
    /\ lastID = NumIDs
    /\ statuses = [i \in IDs |-> NoStatus]
    /\ tickers = [i \in IDs |-> 0]
    /\ pollers = <<>>
    /\ fetches = <<>>
    /\ starting = NoStart
    /\ stopped = FALSE
    /\ boot = [phase |-> "done", todo |-> <<>>, failed |-> FALSE]
    /\ deleting = {}
    /\ clock = 0
    /\ ops = 0
    /\ reply = 0
    /\ local \in Locals
    /\ merged = NilConfig
    /\ statusesMu = Unlocked
    /\ reader = NoReader
    /\ writing = NoWrite

NextReaders ==
    \/ \E call \in ReaderCalls : RLock(call)
    \/ \E id \in IDs : ReadStatus(id)
    \/ GetStatusesReturn
    \/ \E order \in Orders(reader.view) : GetMergedConfigReturn(order)
    \/ \E id \in IDs, resp \in Responses : FetchLock(id, resp)
    \/ \E id \in IDs : DeleteLock(id)
    \/ WriteUnlock

SpecReaders == InitReaders /\ [][NextReaders]_vars

(***************************************************************************)
(* Vocabulary of the properties.                                           *)
(***************************************************************************)
Called == merged # NilConfig

\* the candidates of the cache st whose document defines name n in kind k
Definers(st, k, n) ==
    {id \in Candidates(st) : n \in DOMAIN Items(st[id].Config, k)}

\* the Conflict records of the result m for name n of kind k
ConflictsFor(m, k, n) ==
    {c \in DOMAIN m.conflicts : m.conflicts[c].Type = k /\ m.conflicts[c].Name = n}

ConflictSet(m) == {m.conflicts[c] : c \in DOMAIN m.conflicts}

\* everything a call of GetMergedConfig can return for loc and the cache st
Merges(loc, st) == {GetMergedConfig(loc, st, o) : o \in Orders(st)}

Size(config) ==
    Count(config.Routers) + Count(config.Services) + Count(config.Middlewares)

\* the snapshots that carry an error, and the cache without them
Erroring(st) == {id \in IDs : st[id].ID # 0 /\ st[id].LastError # ""}

WithoutErroring(st) ==
    [id \in IDs |-> IF id \in Erroring(st) THEN NoStatus ELSE st[id]]

\* this step is the end of the fetch fetches[i] that got resp, and the fetch failed
FailedFetch(i, resp) ==
    /\ FetchOutcome(resp).msg # ""
    /\ FinishRefresh(i, resp) \/ FinishTick(i, resp) \/ FinishStart(i, resp)

(***************************************************************************)
(* Properties of GetMergedConfig.                                          *)
(***************************************************************************)
\* C1: local always wins: every name of the local configuration is mapped, in
\* the merged result, to the local definition, whatever the cache holds.
C1_LocalAlwaysWins ==
    Called =>
        \A k \in Kinds : \A n \in DOMAIN Items(local, k) :
            /\ n \in DOMAIN Items(merged.config, k)
            /\ Items(merged.config, k)[n] = Items(local, k)[n]

\* a merge in which a candidate source defines a name the local configuration has
C1_Witness ==
    /\ Called
    /\ \E k \in Kinds : \E n \in DOMAIN Items(local, k) :
          /\ Definers(statuses, k, n) # {}
          /\ Items(merged.config, k)[n] = Items(local, k)[n]

\* C2: priority ordering: when candidates A and B define x in a kind,
\* priority(A) > priority(B) and local does not define x, every merge maps x to
\* A's definition and holds exactly one Conflict for x: source B's name,
\* overridden_by A's name.
C2_PriorityOrdering ==
    \A loc \in Locals : \A m \in Merges(loc, statuses) :
        \A k \in Kinds : \A a, b \in Candidates(statuses) :
            \A n \in DOMAIN Items(statuses[a].Config, k) :
                ( /\ Definers(statuses, k, n) = {a, b}
                  /\ statuses[a].Priority > statuses[b].Priority
                  /\ n \notin DOMAIN Items(loc, k) )
                =>
                ( /\ Items(m.config, k)[n] = Items(statuses[a].Config, k)[n]
                  /\ Cardinality(ConflictsFor(m, k, n)) = 1
                  /\ \A c \in ConflictsFor(m, k, n) :
                        /\ m.conflicts[c].Source = statuses[b].Name
                        /\ m.conflicts[c].OverriddenBy = statuses[a].Name )

\* C3: exclusion of erroring sources: a snapshot with a non-empty last error
\* contributes no item and no Conflict: the merged result is a result of the
\* merge over the cache without the erroring snapshots.
C3_ExclusionOfErroringSources ==
    Called => merged \in Merges(local, WithoutErroring(statuses))

\* a merge over a cache with an active erroring snapshot whose document has a
\* name that the merged result does not have
C3_Witness ==
    /\ Called
    /\ \E id \in Erroring(statuses) :
          /\ statuses[id].IsActive
          /\ statuses[id].Config # NilConfig
          /\ \E k \in Kinds : \E n \in DOMAIN Items(statuses[id].Config, k) :
                n \notin DOMAIN Items(merged.config, k)

(***************************************************************************)
(* Properties of the cache under the pollers and the handlers.             *)
(***************************************************************************)
\* the ids that are not polled: DeleteProvider has returned, or startPolling has
\* never been called, and no startPolling is under way (Stop and a Start that
\* could not load the providers set aside)
Evicted ==
    {id \in IDs : /\ tickers[id] = 0 /\ starting.ID # id
                  /\ ~stopped /\ boot.phase = "done" /\ ~boot.failed}

\* C4: eviction without resurrection: once DeleteProvider(id) has returned and
\* until id is started again, no merge walks over a snapshot of id.
C4_EvictionWithoutResurrection ==
    \A id \in Evicted : \A o \in Orders(statuses) : \A i \in DOMAIN o : o[i] # id

\* C5: a failed fetch for a source that has a snapshot changes the error message
\* of that snapshot and nothing else in the cache.
C5_FailedFetchFrame ==
    [][\A i \in DOMAIN fetches : \A resp \in Responses :
          (FailedFetch(i, resp) /\ statuses[fetches[i].id].ID # 0)
          => statuses' = [statuses EXCEPT
                            ![fetches[i].id].LastError = FetchOutcome(resp).msg]]_vars

\* a snapshot that holds a fetched document and the error of a later fetch
C5_Witness ==
    \E id \in IDs :
        /\ statuses[id].ID # 0
        /\ statuses[id].LastError # ""
        /\ statuses[id].Config # NilConfig
        /\ statuses[id].LastFetched # 0

\* C6: last known good is served: a failed fetch for a source whose document is
\* served leaves every item name of that document in every merge.
C6_LastKnownGoodIsServed ==
    [][\A i \in DOMAIN fetches : \A resp \in Responses :
          (FailedFetch(i, resp) /\ fetches[i].id \in Candidates(statuses))
          => \A loc \in Locals : \A m \in Merges(loc, statuses') :
                \A k \in Kinds :
                    \A n \in DOMAIN Items(statuses[fetches[i].id].Config, k) :
                        n \in DOMAIN Items(m.config, k)]_vars

\* C6 as amended: a failed fetch for a source that has fetched a document keeps
\* the document in the snapshot, under an error, and every merge is a merge
\* without that source.
C6_LastKnownGoodIsKept ==
    [][\A i \in DOMAIN fetches : \A resp \in Responses :
          ( /\ FailedFetch(i, resp)
            /\ statuses[fetches[i].id].ID # 0
            /\ statuses[fetches[i].id].Config # NilConfig )
          => /\ statuses'[fetches[i].id].Config = statuses[fetches[i].id].Config
             /\ statuses'[fetches[i].id].LastError # ""
             /\ \A loc \in Locals :
                   Merges(loc, statuses') =
                   Merges(loc, [statuses' EXCEPT ![fetches[i].id] = NoStatus])]_vars

\* an active source that has fetched a document and then failed: the document is
\* in the snapshot and no merge has its items
C6_Witness ==
    \E id \in Erroring(statuses) :
        /\ statuses[id].IsActive
        /\ statuses[id].Config # NilConfig
        /\ Candidates(statuses) = {}
        /\ \A m \in Merges(EmptyConfig, statuses) : Size(m.config) = 0

\* the number of items the documents of the walk order hold
RECURSIVE OfferedItems(_, _)
OfferedItems(st, order) ==
    IF order = <<>> THEN 0
    ELSE Size(st[Head(order)].Config) + OfferedItems(st, Tail(order))

\* C7: conflict completeness: every item of a candidate is either inserted or
\* discarded with one Conflict: the number of Conflict records is the number of
\* items offered less the number of items inserted.
C7_ConflictCompleteness ==
    \A loc \in Locals : \A o \in Orders(statuses) :
        LET m == GetMergedConfig(loc, statuses, o)
        IN  Len(m.conflicts) =
                OfferedItems(statuses, o) - (Size(m.config) - Size(loc))

\* C8: merge determinism: two calls with the same local configuration and the
\* same cache return the same collections and the same set of Conflict records.
C8_MergeDeterminism ==
    \A loc \in Locals : \A m1, m2 \in Merges(loc, statuses) :
        /\ m1.config = m2.config
        /\ ConflictSet(m1) = ConflictSet(m2)

\* C9: single writer per source: no two fetches in flight are for the same id.
C9_SingleWriterPerSource ==
    \A i, j \in DOMAIN fetches : i # j => fetches[i].id # fetches[j].id

\* C10: minimum interval floor: a source configured with interval r is polled
\* every max(r, 5) seconds: a timer is armed with the interval of the record,
\* raised to 5, the record of a created source holds an interval that gives
\* max(r, 5), and no timer has a period below 5.
C10_MinimumIntervalFloor ==
    [][/\ \A req \in CreateRequests :
             CreateHTTPProvider(req)
             => TickerInterval(registry'[lastID'].RefreshInterval)
                    = Max(req.RefreshInterval, MinIntervalSecs)
       /\ \A i \in DOMAIN fetches : \A resp \in Responses :
             FinishStart(i, resp)
             => \E k \in DOMAIN pollers' :
                    /\ pollers'[k].id = fetches[i].id
                    /\ pollers'[k].period =
                           Max(fetches[i].prov.RefreshInterval, MinIntervalSecs)
       /\ \A k \in DOMAIN pollers' : pollers'[k].period >= MinIntervalSecs]_vars

\* C11: inactive sources are never polled: every fetch that is issued is issued
\* for a record that is active.
C11_InactiveNeverPolled ==
    [][clock' # clock => fetches'[Len(fetches')].prov.IsActive]_vars

\* C12: immediate reflection: when startPolling (AddProvider, UpdateProvider)
\* has fetched a valid document, the document is in the cache without an error
\* and every merge has the names of its items.
C12_ImmediateReflection ==
    [][\A i \in DOMAIN fetches : \A resp \in Responses :
          (FinishStart(i, resp) /\ FetchOutcome(resp).msg = "")
          => /\ statuses'[fetches[i].id].ID = fetches[i].id
             /\ statuses'[fetches[i].id].Config = FetchOutcome(resp).config
             /\ statuses'[fetches[i].id].LastError = ""
             /\ \A loc \in Locals : \A m \in Merges(loc, statuses') :
                   \A k \in Kinds :
                       \A n \in DOMAIN Items(FetchOutcome(resp).config, k) :
                           n \in DOMAIN Items(m.config, k)]_vars

\* a source that is served after its initial fetch, before any tick or refresh
C12_Witness ==
    \E id \in IDs :
        /\ tickers[id] # 0
        /\ id \in Candidates(statuses)
        /\ clock = 1
        /\ fetches = <<>>

\* C13: unknown source on refresh: a refresh of an id without a record answers
\* "not found", issues no fetch and leaves the cache, the timers and the registry
\* as they are; a refresh of a known id answers success while its fetch is in
\* flight, with the cache and the timers as they are.
C13_UnknownSourceOnRefresh ==
    [][\A id \in IDs :
          /\ RefreshNotFound(id)
             => /\ reply' = StatusNotFound
                /\ UNCHANGED <<fetches, clock, statuses, tickers, pollers, registry>>
          /\ RefreshProvider(id)
             => /\ reply' = StatusOK
                /\ Len(fetches') = Len(fetches) + 1
                /\ fetches'[Len(fetches')].id = id
                /\ UNCHANGED <<statuses, tickers, pollers, registry>>]_vars

\* a refresh of an id that has no record has been answered
C13_Witness ==
    /\ reply = StatusNotFound
    /\ ops > 0
    /\ \E id \in IDs : registry[id].ID = 0
    /\ fetches = <<>>

\* C14: a failed load of the registry is fatal to startup: the service is never
\* up, with Start returned and the API served, after a load that failed.
C14_StartupLoadFailureIsFatal ==
    boot.failed => boot.phase # "done"

\* C15: registry write failures are swallowed: when the write of a fetch to the
\* registry fails, the cache is updated as by a fetch whose write went through,
\* the poll goroutine of a tick goes back to its select with its ticker as it
\* was, and startPolling arms the ticker and returns to its caller.
C15_RegistryWriteFailuresSwallowed ==
    [][Len(fetches') <= Len(fetches) =>
       \A i \in DOMAIN fetches : \A resp \in Responses :
          /\ ( \/ RefreshDone(i, resp, FALSE)
               \/ TickDone(i, resp, FALSE)
               \/ StartDone(i, resp, FALSE) )
             => statuses' = FetchedStatuses(statuses, fetches[i].prov,
                                            FetchOutcome(resp), clock)
          /\ TickDone(i, resp, FALSE)
             => /\ pollers'[fetches[i].poller].alive
                /\ ~pollers'[fetches[i].poller].busy
                /\ pollers'[fetches[i].poller].armed = pollers[fetches[i].poller].armed
          /\ StartDone(i, resp, FALSE)
             => /\ tickers'[fetches[i].id] # 0
                /\ pollers'[tickers'[fetches[i].id]].armed
                /\ starting' = NoStart
                /\ reply' = HandlerReply(starting.then, reply)]_vars

\* a snapshot of a fetch whose document the registry row does not have: the
\* write of the fetch has failed
C15_Witness ==
    \E id \in IDs :
        /\ id \in Candidates(statuses)
        /\ registry[id].ID # 0
        /\ registry[id].Name = statuses[id].Name
        /\ registry[id].LastFetched # statuses[id].LastFetched
        /\ pollers # <<>>

\* on a working database a fetch of a poller, failed or not, ends with the
\* goroutine back at its select, and a poller at its select with its ticker armed
\* issues another fetch unless it is stopped first or its record is gone (or the
\* fetches of the model are used up)
RetriedOnLaterTick ==
    /\ \A k \in PollerIndices :
          (k \in DOMAIN pollers /\ pollers[k].busy)
          ~> (k \in DOMAIN pollers /\ ~pollers[k].busy /\ pollers[k].alive)
    /\ \A k \in PollerIndices :
          (k \in DOMAIN pollers /\ pollers[k].alive /\ pollers[k].armed
             /\ ~pollers[k].busy)
          ~> (k \in DOMAIN pollers
              /\ \/ pollers[k].busy
                 \/ ~pollers[k].armed
                 \/ ~pollers[k].alive
                 \/ registry[pollers[k].id].ID = 0
                 \/ clock = MaxFetches)

\* C16: automatic retry: a poll goroutine whose ticker is armed returns, and
\* with that stops issuing fetches for good, only when the service is stopped
\* or the record of its source is gone.
C16_AutomaticRetry ==
    [][\A k \in DOMAIN pollers :
          (pollers[k].alive /\ pollers[k].armed /\ ~pollers'[k].alive)
          => (stopped \/ registry[pollers[k].id].ID = 0)]_vars

\* C17: health classification: the status view has the entry "local" first and
\* healthy, and for every provider of the table an entry that says "inactive"
\* when the provider is inactive, whatever its last error; else "unhealthy" for
\* an error with no fetch ever stored and "degraded" for an error after one;
\* else "healthy".
C17_HealthClassification ==
    LET sources == getSourcesInfo(registry)
    IN  /\ sources[1].name = "local" /\ sources[1].status = "healthy"
        /\ \A id \in IDs :
              registry[id].ID # 0
              => \E i \in 2..Len(sources) :
                    /\ sources[i].name = registry[id].Name
                    /\ sources[i].status =
                          IF ~registry[id].IsActive THEN "inactive"
                          ELSE IF registry[id].LastError = "" THEN "healthy"
                          ELSE IF registry[id].LastFetched = 0 THEN "unhealthy"
                          ELSE "degraded"

\* C18: conflict priority field: every Conflict record of a merged result carries
\* in SourcePriority the priority of the overridden source, the candidate named
\* in Source whose document defines the name, not that of the winner.
C18_ConflictPriorityField ==
    Called =>
        \A c \in DOMAIN merged.conflicts :
            \E id \in Definers(statuses, merged.conflicts[c].Type,
                               merged.conflicts[c].Name) :
                /\ statuses[id].Name = merged.conflicts[c].Source
                /\ statuses[id].Priority = merged.conflicts[c].SourcePriority

\* a merge with a Conflict whose winner is a source of another priority than the
\* one the record carries
C18_Witness ==
    /\ Called
    /\ \E c \in DOMAIN merged.conflicts : \E w \in Candidates(statuses) :
          /\ statuses[w].Name = merged.conflicts[c].OverriddenBy
          /\ merged.conflicts[c].OverriddenBy # "local"
          /\ merged.conflicts[c].Source # merged.conflicts[c].OverriddenBy
          /\ statuses[w].Priority # merged.conflicts[c].SourcePriority

\* every router of the document names a service of the same document
Consistent(config) ==
    \A r \in DOMAIN config.Routers : config.Routers[r].service \in DOMAIN config.Services

\* C19: route-to-service reference integrity: when the local configuration and
\* the document of every candidate are consistent, every router of the merged
\* result names a service of the merged result.
C19_RouteToServiceIntegrity ==
    ( /\ Called
      /\ Consistent(local)
      /\ \A id \in Candidates(statuses) : Consistent(statuses[id].Config) )
    => Consistent(merged.config)

\* a merge that takes a router from one document and the service it names from
\* another
C19_Witness ==
    /\ Called
    /\ \E r \in DOMAIN merged.config.Routers :
          /\ merged.config.Routers[r].from # "db"
          /\ merged.config.Routers[r].service \in DOMAIN merged.config.Services
          /\ merged.config.Services[merged.config.Routers[r].service].from
                # merged.config.Routers[r].from

\* C20: cache reader atomicity: no write to the cache runs while a call of
\* GetStatuses or GetMergedConfig holds the read lock, so what the call has read
\* of a source is the snapshot the cache holds for it, whole, as the last write
\* before the call left it, never a part of it beside a part of a later one.
C20_CacheReaderAtomicity ==
    /\ ~(statusesMu.writer /\ statusesMu.readers > 0)
    /\ reader.pc = "held"
       => \A id \in IDs \ reader.todo : reader.view[id] = statuses[id]

\* a call has returned the snapshot of a source as it was before a write that
\* has replaced it since
C20_Witness ==
    /\ reader.pc = "idle"
    /\ reader.call \in ReaderCalls
    /\ \E id \in IDs :
          /\ reader.view[id].ID # 0
          /\ statuses[id].ID # 0
          /\ reader.view[id] # statuses[id]

\* C21: a fetch blocks only its own source: while a fetch is in flight, the
\* initial fetch of startPolling included, the stop of any other source
\* (DeleteHTTPProvider -> DeleteProvider) that the table and the handler allow
\* can run: no lock it needs is held for the time of the fetch.
C21_FetchBlocksOnlyItsOwnSource ==
    \A i \in DOMAIN fetches : \A j \in IDs \ {fetches[i].id} :
        ( /\ registry[j].ID # 0
          /\ j \notin deleting
          /\ ops < MaxOps
          /\ boot.phase = "done" )
        => ENABLED DeleteHTTPProvider(j)

\* C22: shutdown: Stop stops every ticker and empties the tickers map; after it
\* every poll goroutine returns in the end; a goroutine that has returned on the
\* stop signal stays so and issues no further fetch.
C22_Shutdown ==
    /\ [][(~stopped /\ stopped')
          => /\ tickers' = [i \in IDs |-> 0]
             /\ \A k \in DOMAIN pollers' : ~pollers'[k].armed]_vars
    /\ [][\A k \in DOMAIN pollers :
            (stopped /\ ~pollers[k].alive)
            => /\ ~pollers'[k].alive
               /\ Len(fetches') > Len(fetches)
                  => fetches'[Len(fetches')].poller # k]_vars
    /\ stopped ~> (\A k \in DOMAIN pollers : ~pollers[k].alive)

\* the service is stopped with a poller in its fetch; every goroutine has returned
C22_Witness ==
    /\ stopped
    /\ pollers # <<>>
    /\ clock > Len(pollers)
    /\ \A k \in DOMAIN pollers : ~pollers[k].alive

\* C23: poller registry writes touch status fields only: the step in which a
\* fetch completes leaves the name, the priority, the active flag and the refresh
\* interval of every record as they are in the table (and makes no record),
\* whatever has been committed since the fetch read its record.
C23_RegistryWritesTouchStatusFieldsOnly ==
    [][Len(fetches') < Len(fetches)
       => \A id \in IDs :
            IF registry[id].ID = 0 THEN registry'[id].ID = 0
            ELSE /\ registry'[id].ID = id
                 /\ registry'[id].Name = registry[id].Name
                 /\ registry'[id].Priority = registry[id].Priority
                 /\ registry'[id].IsActive = registry[id].IsActive
                 /\ registry'[id].RefreshInterval = registry[id].RefreshInterval]_vars

\* the candidates of the cache have pairwise distinct priorities
DistinctPriorities(st) ==
    \A a, b \in Candidates(st) : a # b => st[a].Priority # st[b].Priority

\* C24: merge is independent of arrival order: the cache is a map and the walk
\* meets its entries in any order before the sort, so whatever order the
\* snapshots were written in, when the candidates have pairwise distinct
\* priorities every call returns the same collections and the same Conflict
\* records.
C24_MergeIndependentOfArrivalOrder ==
    DistinctPriorities(statuses)
    => \A loc \in Locals : \A m1, m2 \in Merges(loc, statuses) :
          /\ m1.config = m2.config
          /\ ConflictSet(m1) = ConflictSet(m2)

\* a merge over two candidates of different priorities whose documents share a
\* name, with the Conflict of it
C24_Witness ==
    /\ Called
    /\ Cardinality(Candidates(statuses)) = NumIDs
    /\ DistinctPriorities(statuses)
    /\ \E a, b \in Candidates(statuses) :
          /\ a # b
          /\ statuses[a].Name # statuses[b].Name
          /\ \E c \in DOMAIN merged.conflicts :
                /\ merged.conflicts[c].Source = statuses[b].Name
                /\ merged.conflicts[c].OverriddenBy = statuses[a].Name

\* C25: status classification of a fetch: a fetch that completes with an answer
\* is recorded as the error "HTTP <code>: <status text>" exactly when the status
\* code is outside 200..299, and an answer in 200..299 with a readable, parsable
\* body is a successful fetch.
C25_StatusClassification ==
    [][\A i \in DOMAIN fetches : \A resp \in Responses :
          ( /\ resp.ok
            /\ \/ FinishRefresh(i, resp)
               \/ FinishTick(i, resp)
               \/ FinishStart(i, resp) )
          => /\ FetchOutcome(resp).msg = StatusLine(resp.code)
                <=> resp.code \notin 200..299
             /\ ( /\ resp.code \in 200..299
                  /\ resp.readable
                  /\ ~Unmarshal(resp.body).err )
                => FetchOutcome(resp).msg = ""]_vars

\* C26: vanished source: the tick that finds the record of its source gone
\* issues no fetch, ends the poller, and leaves no snapshot of the source in the
\* cache.
C26_VanishedSource ==
    [][\A k \in DOMAIN pollers :
          TickGone(k)
          => /\ fetches' = fetches
             /\ ~pollers'[k].alive
             /\ statuses'[pollers[k].id].ID = 0]_vars

\* the tickers of source id that have not been stopped
Armed(ps, id) == {k \in DOMAIN ps : ps[k].id = id /\ ps[k].armed}

\* C27: idempotent restart: a source has at most one armed ticker, the one of
\* the tickers map; startPolling on a source that has a ticker stops it before
\* it arms the new one, and startPolling for an inactive source leaves no armed
\* ticker for it.
C27_IdempotentRestart ==
    /\ [](\A id \in IDs :
            /\ Cardinality(Armed(pollers, id)) <= 1
            /\ \A k \in Armed(pollers, id) : tickers[id] = k)
    /\ [][\A id \in IDs :
            (starting = NoStart /\ starting'.ID = id) => Armed(pollers', id) = {}]_vars
    /\ [][( /\ boot.phase = "loop"
            /\ boot.todo # <<>>
            /\ boot'.todo = Tail(boot.todo)
            /\ ~Head(boot.todo).IsActive )
          => /\ starting' = NoStart
             /\ Armed(pollers', Head(boot.todo).ID) = {}]_vars

\* a source that has been restarted: its first ticker is stopped, its second
\* is armed
C27_Witness ==
    \E id \in IDs : \E k1, k2 \in DOMAIN pollers :
        /\ pollers[k1].id = id /\ ~pollers[k1].armed
        /\ pollers[k2].id = id /\ pollers[k2].armed
        /\ tickers[id] = k2

\* C28: one snapshot per active source: every active source that has been
\* started (startPolling has armed its ticker) has a snapshot in the cache, also
\* when all its fetches have failed so far; that snapshot then carries the error
\* and no last-fetch time.
C28_OneSnapshotPerActiveSource ==
    \A id \in IDs :
        (tickers[id] # 0 /\ pollers[tickers[id]].armed)
        => /\ statuses[id].ID = id
           /\ statuses[id].LastFetched = 0 => statuses[id].LastError # ""

\* C29: the two merged views agree: for the same local tables and the same
\* cache (and the same walk), the configuration GenerateConfig serves and the one
\* the administrative view shows have the same names in every kind, each from
\* the same winner.
C29_MergedViewsAgree ==
    \A t \in LocalTables : \A o \in Orders(statuses) :
        LET served == GenerateConfig(t, statuses, o)
            shown == HandlerGetMergedConfig(t, statuses, o)
        IN  \A k \in Kinds :
                /\ DOMAIN Items(served, k) = DOMAIN Items(shown, k)
                /\ \A n \in DOMAIN Items(served, k) :
                      Items(served, k)[n].from = Items(shown, k)[n].from

\* the poll goroutines of source id that have not returned
Alive(ps, id) == {k \in DOMAIN ps : ps[k].id = id /\ ps[k].alive}

\* C30: superseded poller tasks terminate: a source has at most one poll
\* goroutine that has not returned, however often it has been restarted or
\* stopped.
C30_SupersededPollersTerminate ==
    \A id \in IDs : Cardinality(Alive(pollers, id)) <= 1
====
